---- MODULE Spec2Model ----
(***************************************************************************)
(* Model of the pet state engine of fishpi_pokemon                         *)
(* (src/src/pets/pets.service.ts, the Pet schema and the update DTO).      *)
(*                                                                         *)
(* Time is counted in whole minutes since the creation of the first pet;   *)
(* Date.getTime() differences are therefore multiples of 60000 ms and the  *)
(* floating point quotients of updatePetStatsOverTime are computed here    *)
(* with exact integer arithmetic: floor(h * 2) = floor(2 * m / 60),        *)
(* floor(h * 1.5) = floor(3 * m / 120), floor(h * 1) = floor(m / 60)       *)
(* where m is the elapsed time in minutes and h = m / 60.                  *)
(***************************************************************************)
EXTENDS Integers, Sequences, FiniteSets, TLC

VARIABLES store, clock, last, procs, hist, ncalls, base, validation

vars == <<store, clock, last, procs, hist, ncalls, base, validation>>

(***************************************************************************)
(* Bounds of the model.                                                    *)
(***************************************************************************)
\* number of service calls started in Spec
MaxCalls == 2
\* number of feedPet calls the second initial pet of Spec has received
PriorFeeds == 7
\* number of service calls started in SpecEngine
MaxApply == 2
\* number of service calls started in SpecPair
MaxPairCalls == 2
\* number of playWithPet calls the second pet of SpecPair has received
PriorPlays == 2
\* number of requests made in SpecCrud
MaxCrudCalls == 3
\* number of service calls started in SpecDelete
MaxDeleteCalls == 2
\* the minute at which the clock of SpecNeglect stops being counted
NeglectHorizon == 180

\* the instants (minutes) at which the clock is read: creation, 1 hour,
\* 2 hours and 102 hours later
Times == {0, 60, 120, 6120}

\* identifiers of pet documents; absent documents are NoPet
PetIds == {1, 2}
NoPet == [absent |-> TRUE]

\* the concurrently running request handlers / scheduler invocations
Procs == {1, 2}

(***************************************************************************)
(* Program constants.                                                      *)
(***************************************************************************)
MinutesPerHour == 60
VitalMax == 100
DefaultLevel == 1
DefaultExperience == 0
DefaultVital == 100
ExpPerLevel == 100
FeedHunger == 30
FeedHappiness == 10
FeedExperience == 10
PlayHappiness == 25
PlayEnergy == 20
PlayHunger == 15
PlayExperience == 15
SleepEnergy == 40
SleepHealth == 10
SleepActiveEnergy == 80
HealHealth == 30
SickHealth == 30
SleepingEnergy == 20
HungryHunger == 30
HappyHappiness == 80
HappyHealth == 80
HappyEnergy == 60

PetStatus == {"active", "sleeping", "sick", "happy", "hungry"}

\* enum PetType
PetType == {"fish", "cat"}

\* the pet types the README lists
DocumentedTypes == {"cat", "dog", "bird", "fish", "rabbit"}

\* PetsService.getPetTypes: Object.values(PetType)
getPetTypes == PetType

Min(a, b) == IF a < b THEN a ELSE b
Max(a, b) == IF a > b THEN a ELSE b

\* calculatePetStatus with the energy test moved before the health test
calculatePetStatusEnergyFirst(hunger, health, energy, happiness) ==
  IF energy < SleepingEnergy THEN "sleeping"
  ELSE IF health < SickHealth THEN "sick"
  ELSE IF hunger < HungryHunger THEN "hungry"
  ELSE IF happiness > HappyHappiness /\ health > HappyHealth /\ energy > HappyEnergy
       THEN "happy"
  ELSE "active"

\* calculatePetStatus with energy >= 60 in the happy test
calculatePetStatusInclusive(hunger, health, energy, happiness) ==
  IF health < SickHealth THEN "sick"
  ELSE IF energy < SleepingEnergy THEN "sleeping"
  ELSE IF hunger < HungryHunger THEN "hungry"
  ELSE IF happiness > HappyHappiness /\ health > HappyHealth /\ energy >= HappyEnergy
       THEN "happy"
  ELSE "active"

(***************************************************************************)
(* PetsService.calculatePetStatus                                          *)
(***************************************************************************)
calculatePetStatus(hunger, health, energy, happiness) ==
  IF health < SickHealth THEN "sick"
  ELSE IF energy < SleepingEnergy THEN "sleeping"
  ELSE IF hunger < HungryHunger THEN "hungry"
  ELSE IF happiness > HappyHappiness /\ health > HappyHealth /\ energy > HappyEnergy
       THEN "happy"
  ELSE "active"

\* the level rounded up instead of floor + 1
levelOfCeil(experience) == (experience + ExpPerLevel - 1) \div ExpPerLevel

\* Math.floor(newExperience / 100) + 1
levelOf(experience) == (experience \div ExpPerLevel) + 1

\* the schema with the default level 0
NewPetLevelZero(now) ==
  [ type       |-> "fish",
    level      |-> 0,
    experience |-> DefaultExperience,
    health     |-> DefaultVital,
    hunger     |-> DefaultVital,
    happiness  |-> DefaultVital,
    energy     |-> DefaultVital,
    status     |-> "active",
    lastFed    |-> now,
    lastPlayed |-> now,
    lastSlept  |-> now ]

(***************************************************************************)
(* The Pet schema: the document new this.petModel(dto).save() stores when  *)
(* the clock reads now (Date.now defaults for the three timestamps), here  *)
(* for a dto of type fish.  The name and the owner of a pet are read and   *)
(* written by no operation modelled here and are left out.                 *)
(***************************************************************************)
NewPet(now) ==
  [ type       |-> "fish",
    level      |-> DefaultLevel,
    experience |-> DefaultExperience,
    health     |-> DefaultVital,
    hunger     |-> DefaultVital,
    happiness  |-> DefaultVital,
    energy     |-> DefaultVital,
    status     |-> "active",
    lastFed    |-> now,
    lastPlayed |-> now,
    lastSlept  |-> now ]

PetFields == {"type", "level", "experience", "health", "hunger", "happiness", "energy",
              "status", "lastFed", "lastPlayed", "lastSlept"}

(***************************************************************************)
(* petModel.findByIdAndUpdate(id, dto, {new: true}): the fields of the dto *)
(* replace those of the stored document, the others are kept.              *)
(***************************************************************************)
Merge(pet, dto) ==
  [f \in PetFields |-> IF f \in DOMAIN dto THEN dto[f] ELSE pet[f]]

\* an update whose filter matches every document
updateAll(st, id, dto) ==
  IF st[id] = NoPet THEN st
  ELSE [i \in PetIds |-> IF st[i] = NoPet THEN NoPet ELSE Merge(st[i], dto)]

\* PetsService.update: no document with that id -> null, nothing is created
update(st, id, dto) ==
  IF st[id] = NoPet THEN st
  ELSE [st EXCEPT ![id] = Merge(st[id], dto)]

(***************************************************************************)
(* The update each handler computes from the document it has read.         *)
(***************************************************************************)
\* the feed with the status computed from the hunger and happiness it read
feedDtoStaleStatus(pet, now) ==
  LET newHunger     == Min(VitalMax, pet.hunger + FeedHunger)
      newHappiness  == Min(VitalMax, pet.happiness + FeedHappiness)
      newExperience == pet.experience + FeedExperience
  IN [ hunger     |-> newHunger,
       happiness  |-> newHappiness,
       experience |-> newExperience,
       level      |-> levelOf(newExperience),
       status     |-> calculatePetStatus(pet.hunger, pet.health, pet.energy, pet.happiness),
       lastFed    |-> now ]

feedDto(pet, now) ==
  LET newHunger     == Min(VitalMax, pet.hunger + FeedHunger)
      newHappiness  == Min(VitalMax, pet.happiness + FeedHappiness)
      newExperience == pet.experience + FeedExperience
  IN [ hunger     |-> newHunger,
       happiness  |-> newHappiness,
       experience |-> newExperience,
       level      |-> levelOf(newExperience),
       status     |-> calculatePetStatus(newHunger, pet.health, pet.energy, newHappiness),
       lastFed    |-> now ]

\* the play without the lower clamp of energy and hunger
playDtoNoFloor(pet, now) ==
  LET newHappiness  == Min(VitalMax, pet.happiness + PlayHappiness)
      newEnergy     == pet.energy - PlayEnergy
      newHunger     == pet.hunger - PlayHunger
      newExperience == pet.experience + PlayExperience
  IN [ happiness  |-> newHappiness,
       energy     |-> newEnergy,
       hunger     |-> newHunger,
       experience |-> newExperience,
       level      |-> levelOf(newExperience),
       status     |-> calculatePetStatus(newHunger, pet.health, newEnergy, newHappiness),
       lastPlayed |-> now ]

playDto(pet, now) ==
  LET newHappiness  == Min(VitalMax, pet.happiness + PlayHappiness)
      newEnergy     == Max(0, pet.energy - PlayEnergy)
      newHunger     == Max(0, pet.hunger - PlayHunger)
      newExperience == pet.experience + PlayExperience
  IN [ happiness  |-> newHappiness,
       energy     |-> newEnergy,
       hunger     |-> newHunger,
       experience |-> newExperience,
       level      |-> levelOf(newExperience),
       status     |-> calculatePetStatus(newHunger, pet.health, newEnergy, newHappiness),
       lastPlayed |-> now ]

\* the sleep status with >= in place of >
sleepStatusInclusive(newEnergy) ==
  IF newEnergy >= SleepActiveEnergy THEN "active" ELSE "sleeping"

sleepStatus(newEnergy) ==
  IF newEnergy > SleepActiveEnergy THEN "active" ELSE "sleeping"

\* the sleep that also grants experience
sleepDtoWithExperience(pet, now) ==
  LET newEnergy == Min(VitalMax, pet.energy + SleepEnergy)
      newHealth == Min(VitalMax, pet.health + SleepHealth)
      newExperience == pet.experience + FeedExperience
  IN [ energy     |-> newEnergy,
       health     |-> newHealth,
       experience |-> newExperience,
       level      |-> levelOf(newExperience),
       status     |-> sleepStatus(newEnergy),
       lastSlept  |-> now ]

sleepDto(pet, now) ==
  LET newEnergy == Min(VitalMax, pet.energy + SleepEnergy)
      newHealth == Min(VitalMax, pet.health + SleepHealth)
  IN [ energy    |-> newEnergy,
       health    |-> newHealth,
       status    |-> sleepStatus(newEnergy),
       lastSlept |-> now ]

\* the heal without the upper clamp
healDtoNoCap(pet, now) ==
  LET newHealth == pet.health + HealHealth
  IN [ health |-> newHealth,
       status |-> calculatePetStatus(pet.hunger, newHealth, pet.energy, pet.happiness) ]

\* the heal with the status computed from the health it read
healDtoStaleStatus(pet, now) ==
  LET newHealth == Min(VitalMax, pet.health + HealHealth)
  IN [ health |-> newHealth,
       status |-> calculatePetStatus(pet.hunger, pet.health, pet.energy, pet.happiness) ]

healDto(pet, now) ==
  LET newHealth == Min(VitalMax, pet.health + HealHealth)
  IN [ health |-> newHealth,
       status |-> calculatePetStatus(pet.hunger, newHealth, pet.energy, pet.happiness) ]

\* Math.floor(hoursSinceLastFed * 2), Math.floor(hoursSinceLastPlay * 1.5),
\* Math.floor(hoursSinceLastSleep * 1) for elapsed minutes m (\div floors)
hungerLoss(m)    == (2 * m) \div MinutesPerHour
happinessLoss(m) == (3 * m) \div (2 * MinutesPerHour)
energyLoss(m)    == m \div MinutesPerHour

\* the decay without the lower clamp
decayDtoNoFloor(pet, now) ==
  LET newHunger    == pet.hunger - hungerLoss(now - pet.lastFed)
      newHappiness == pet.happiness - happinessLoss(now - pet.lastPlayed)
      newEnergy    == pet.energy - energyLoss(now - pet.lastSlept)
  IN [ hunger    |-> newHunger,
       happiness |-> newHappiness,
       energy    |-> newEnergy,
       status    |-> calculatePetStatus(newHunger, pet.health, newEnergy, newHappiness) ]

\* the decay with the time since lastFed used for all three vitals
decayDtoSingleBase(pet, now) ==
  LET newHunger    == Max(0, pet.hunger - hungerLoss(now - pet.lastFed))
      newHappiness == Max(0, pet.happiness - happinessLoss(now - pet.lastFed))
      newEnergy    == Max(0, pet.energy - energyLoss(now - pet.lastFed))
  IN [ hunger    |-> newHunger,
       happiness |-> newHappiness,
       energy    |-> newEnergy,
       status    |-> calculatePetStatus(newHunger, pet.health, newEnergy, newHappiness) ]

\* the decay that also restarts the feeding clock
decayDtoStampsFed(pet, now) ==
  LET newHunger    == Max(0, pet.hunger - hungerLoss(now - pet.lastFed))
      newHappiness == Max(0, pet.happiness - happinessLoss(now - pet.lastPlayed))
      newEnergy    == Max(0, pet.energy - energyLoss(now - pet.lastSlept))
  IN [ hunger    |-> newHunger,
       happiness |-> newHappiness,
       energy    |-> newEnergy,
       status    |-> calculatePetStatus(newHunger, pet.health, newEnergy, newHappiness),
       lastFed   |-> now ]

\* the decay that leaves the energy out of its update
decayDtoKeepsEnergy(pet, now) ==
  LET newHunger    == Max(0, pet.hunger - hungerLoss(now - pet.lastFed))
      newHappiness == Max(0, pet.happiness - happinessLoss(now - pet.lastPlayed))
      newEnergy    == Max(0, pet.energy - energyLoss(now - pet.lastSlept))
  IN [ hunger    |-> newHunger,
       happiness |-> newHappiness,
       status    |-> calculatePetStatus(newHunger, pet.health, newEnergy, newHappiness) ]

\* the decay that lowers health with the time since the last sleep as well
decayDtoHealth(pet, now) ==
  LET newHunger    == Max(0, pet.hunger - hungerLoss(now - pet.lastFed))
      newHappiness == Max(0, pet.happiness - happinessLoss(now - pet.lastPlayed))
      newEnergy    == Max(0, pet.energy - energyLoss(now - pet.lastSlept))
      newHealth    == Max(0, pet.health - energyLoss(now - pet.lastSlept))
  IN [ hunger    |-> newHunger,
       happiness |-> newHappiness,
       energy    |-> newEnergy,
       health    |-> newHealth,
       status    |-> calculatePetStatus(newHunger, newHealth, newEnergy, newHappiness) ]

decayDto(pet, now) ==
  LET newHunger    == Max(0, pet.hunger - hungerLoss(now - pet.lastFed))
      newHappiness == Max(0, pet.happiness - happinessLoss(now - pet.lastPlayed))
      newEnergy    == Max(0, pet.energy - energyLoss(now - pet.lastSlept))
  IN [ hunger    |-> newHunger,
       happiness |-> newHappiness,
       energy    |-> newEnergy,
       status    |-> calculatePetStatus(newHunger, pet.health, newEnergy, newHappiness) ]

Ops == {"feed", "play", "sleep", "heal", "decay"}

dtoOf(op, pet, now) ==
  CASE op = "feed"  -> feedDto(pet, now)
    [] op = "play"  -> playDto(pet, now)
    [] op = "sleep" -> sleepDto(pet, now)
    [] op = "heal"  -> healDto(pet, now)
    [] op = "decay" -> decayDto(pet, now)

\* the transition (pet, now) -> pet' a handler performs on the document
transition(op, pet, now) == Merge(pet, dtoOf(op, pet, now))

(***************************************************************************)
(* State.  store: the pets collection; clock: what new Date() returns;     *)
(* procs: the calls in flight, each with its position (answer: the read    *)
(* is executed and its answer on the way; write: the update is sent;       *)
(* insert: the insert is sent; return: the last write is executed and its  *)
(* answer on the way), the operation, the id, the documents the database   *)
(* returned, the time new Date() gave and the request body; hist: the      *)
(* calls of feedPet, playWithPet, sleepPet, healPet and                    *)
(* updatePetStatsOverTime that have returned a value to their caller, in   *)
(* the order in which they returned, with the time each read from the      *)
(* clock; last: the last write or rejected call (operation, id, the time   *)
(* it read from the clock, the collection before it, the request body of   *)
(* a create or a PATCH, whether the pet was found or the body accepted,    *)
(* the document the write was computed from); ncalls: the number of calls  *)
(* started so far; base: the collection in the initial state; validation:  *)
(* the options of the global ValidationPipe, which main() reads from the   *)
(* server configuration.                                                   *)
(***************************************************************************)
EmptyStore == [i \in PetIds |-> NoPet]

\* serverConfig.validation: the configuration file is not part of the
\* sources, so the two options may have any value
ValidationConfigs == [whitelist : BOOLEAN, forbidNonWhitelisted : BOOLEAN]

\* the options in the specifications in which no request carries a body
NoBodies == [whitelist |-> FALSE, forbidNonWhitelisted |-> FALSE]

IdleProc == [pc |-> "idle", op |-> "none", id |-> 0, at |-> 0, snap |-> EmptyStore,
             arg |-> "none"]

\* the document after n more calls of one handler at time now
RECURSIVE Repeat(_, _, _, _)
Repeat(op, pet, now, n) ==
  IF n = 0 THEN pet ELSE Repeat(op, transition(op, pet, now), now, n - 1)

\* Spec starts from pet 1 just created, or created and fed PriorFeeds times
InitPets == {NewPet(0), Repeat("feed", NewPet(0), 0, PriorFeeds)}

Init ==
  /\ clock = 0
  /\ \E pet \in InitPets : store = [i \in PetIds |-> IF i = 1 THEN pet ELSE NoPet]
  /\ last = [op |-> "create", id |-> 1, at |-> 0, before |-> EmptyStore,
             arg |-> "none", found |-> TRUE, read |-> NoPet]
  /\ procs = [p \in Procs |-> IdleProc]
  /\ hist = << >>
  /\ ncalls = 0
  /\ base = store
  /\ validation = NoBodies

\* wall-clock time passes
Tick(t) ==
  /\ t > clock
  /\ clock' = t
  /\ UNCHANGED <<store, last, procs, hist, ncalls, base, validation>>

\* one more call is started, up to n calls
Counted(n) ==
  /\ ncalls < n
  /\ ncalls' = ncalls + 1

(***************************************************************************)
(* SpecEngine: the service on one stored record drawn from bounded sets,   *)
(* at a clock drawn from a bounded set that stands still.  The record is   *)
(* any valid one (vitals in 0..100, level consistent with experience) and  *)
(* the clock may lie before the record's timestamps.  The calls are those  *)
(* of Spec, made of the same steps (below).                                *)
(***************************************************************************)
\* the samples lie on both sides of every threshold of the classifier:
\* health 30 and 80, energy 20 and 60, hunger 30, happiness 80
HealthSamples     == {29, 30, 80, 81}
EnergySamples     == {19, 20, 60, 61}
HungerSamples     == {29, 30}
HappinessSamples  == {80, 100}
ExperienceSamples == {0, 95}
\* the record was fed and put to sleep at minute 0 and played with at
\* minute 60; the clock stands 24 minutes after the feed, which is before
\* the play, or 60 minutes after the feed
FedSamples        == {0}
PlayedSamples     == {60}
SleptSamples      == {0}
NowSamples        == {24, 60}

InitEngine ==
  /\ clock \in NowSamples
  /\ \E he \in HealthSamples, en \in EnergySamples, hu \in HungerSamples,
        ha \in HappinessSamples, ex \in ExperienceSamples,
        lf \in FedSamples, lp \in PlayedSamples, ls \in SleptSamples :
        store = [i \in PetIds |->
                  IF i = 1
                  THEN [ type       |-> "fish",
                         level      |-> levelOf(ex),
                         experience |-> ex,
                         health     |-> he,
                         hunger     |-> hu,
                         happiness  |-> ha,
                         energy     |-> en,
                         status     |-> calculatePetStatus(hu, he, en, ha),
                         lastFed    |-> lf,
                         lastPlayed |-> lp,
                         lastSlept  |-> ls ]
                  ELSE NoPet]
  /\ last = [op |-> "none", id |-> 1, at |-> 0, before |-> EmptyStore,
             arg |-> "none", found |-> TRUE, read |-> NoPet]
  /\ procs = [p \in Procs |-> IdleProc]
  /\ hist = << >>
  /\ ncalls = 0
  /\ base = store
  /\ validation = NoBodies

(***************************************************************************)
(* Spec: the service on one stored pet.  Every handler returns to the      *)
(* event loop at its awaits, where any other handler may run, and the      *)
(* database executes a request at some moment between the call and the     *)
(* answer.  A call of feedPet, playWithPet, sleepPet or healPet is four    *)
(* steps: the database executes findById (Read), the answer reaches the    *)
(* handler, which reads the clock, computes the update and sends it        *)
(* (Resume), the database executes findByIdAndUpdate (Commit), and the     *)
(* answer reaches the handler, which returns (Return).  A batch is the     *)
(* step in which the database executes find() (ReadAll), the step in       *)
(* which the answer reaches it and it reads the clock (ResumeDecay), one   *)
(* step for each update of its loop (DecayStep) and the step in which the  *)
(* answer of the last update reaches it and it returns (Return).  Up to    *)
(* two calls are in flight at a time.                                      *)
(***************************************************************************)
\* a call that starts is given the first handler that is not in flight
FirstIdle(p) ==
  /\ procs[p].pc = "idle"
  /\ \A q \in Procs : q < p => procs[q].pc # "idle"

\* the collection that holds doc under id and nothing else
Only(id, doc) == [i \in PetIds |-> IF i = id THEN doc ELSE NoPet]

\* const pet = await this.findById(id): the call is made and the database
\* executes the query; the document it returns is the one stored now
Read(p, op, id) ==
  /\ FirstIdle(p)
  /\ procs' = [procs EXCEPT ![p] =
                [pc |-> "answer", op |-> op, id |-> id, at |-> 0,
                 snap |-> Only(id, store[id]), arg |-> "none"]]
  /\ UNCHANGED <<store, clock, last, hist, base, validation>>

\* a handler that creates the document when findById returned null
ResumeUpsert(p) ==
  LET c == procs[p] IN
  /\ c.pc = "answer"
  /\ c.op \in Ops \ {"decay"}
  /\ IF c.snap[c.id] = NoPet
     THEN /\ last' = [op |-> c.op, id |-> c.id, at |-> clock, before |-> store,
                      arg |-> "none", found |-> FALSE, read |-> NoPet]
          /\ store' = [store EXCEPT ![c.id] = transition(c.op, NewPet(clock), clock)]
          /\ procs' = [procs EXCEPT ![p] = IdleProc]
     ELSE /\ procs' = [procs EXCEPT ![p].pc = "write", ![p].at = clock]
          /\ UNCHANGED <<last, store>>
  /\ UNCHANGED <<clock, hist, ncalls, base, validation>>

\* the answer of findById reaches the handler: null -> NotFoundException,
\* else the update is computed from the document read and new Date() and
\* this.update is called
Resume(p) ==
  LET c == procs[p] IN
  /\ c.pc = "answer"
  /\ c.op \in Ops \ {"decay"}
  /\ IF c.snap[c.id] = NoPet
     THEN /\ last' = [op |-> c.op, id |-> c.id, at |-> clock, before |-> store,
                      arg |-> "none", found |-> FALSE, read |-> NoPet]
          /\ procs' = [procs EXCEPT ![p] = IdleProc]
     ELSE /\ procs' = [procs EXCEPT ![p].pc = "write", ![p].at = clock]
          /\ UNCHANGED last
  /\ UNCHANGED <<store, clock, hist, ncalls, base, validation>>

\* the database executes the findByIdAndUpdate of return this.update(id,
\* {...}) of feedPet, playWithPet, sleepPet, healPet; its answer is on the
\* way to the handler
Commit(p) ==
  LET c == procs[p] IN
  /\ c.pc = "write"
  /\ c.op \in Ops \ {"decay"}
  /\ store' = update(store, c.id, dtoOf(c.op, c.snap[c.id], c.at))
  /\ last' = [op |-> c.op, id |-> c.id, at |-> c.at, before |-> store,
              arg |-> "none", found |-> TRUE, read |-> c.snap[c.id]]
  /\ procs' = [procs EXCEPT ![p].pc = "return"]
  /\ UNCHANGED <<clock, hist, ncalls, base, validation>>

\* the answer of the last write of a call reaches its handler, which
\* returns to its caller
Deliver(p) ==
  /\ procs[p].pc = "return"
  /\ procs' = [procs EXCEPT ![p] = IdleProc]
  /\ UNCHANGED <<store, clock, last, ncalls, base, validation>>

\* the return of a call, which enters a call of the five operations in hist
Return(p) ==
  LET c == procs[p] IN
  /\ Deliver(p)
  /\ hist' = IF c.op \in Ops
             THEN Append(hist, [op |-> c.op,
                                id |-> IF c.op = "decay" THEN 0 ELSE c.id,
                                at |-> c.at])
             ELSE hist

\* const pets = await this.findAll(): the batch is called and the database
\* executes find(); the documents it returns are those stored now
ReadAll(p) ==
  /\ FirstIdle(p)
  /\ procs' = [procs EXCEPT ![p] =
                [pc |-> "answer", op |-> "decay", id |-> 0, at |-> 0,
                 snap |-> store, arg |-> "none"]]
  /\ UNCHANGED <<store, clock, last, hist, base, validation>>

\* the pets of the snapshot the loop has still to visit; a visited pet is
\* struck from the snapshot
Pending(c) == {i \in PetIds : c.snap[i] # NoPet}

\* the answer of find() reaches the batch: const now = new Date(); with no
\* document the loop is empty and the batch returns, else the update of the
\* first pet is computed and sent
ResumeLoop(p) ==
  LET c == procs[p] IN
  /\ c.pc = "answer"
  /\ c.op = "decay"
  /\ procs' = IF Pending(c) = {}
              THEN [procs EXCEPT ![p] = IdleProc]
              ELSE [procs EXCEPT ![p].pc = "write", ![p].at = clock]
  /\ UNCHANGED <<store, clock, last, ncalls, base, validation>>

\* the continuation of the batch, which is entered in hist when it returns
ResumeDecay(p) ==
  /\ ResumeLoop(p)
  /\ hist' = IF Pending(procs[p]) = {}
             THEN Append(hist, [op |-> "decay", id |-> 0, at |-> clock])
             ELSE hist

\* the database executes await this.update(pet._id, {...}) of one iteration
\* of the for loop; after the last pet of the snapshot the answer is on the
\* way to the batch, which will return, else the update of the next pet is
\* sent.  find() has no sort, so the loop may take the pets of the snapshot
\* in any order
DecayStep(p) ==
  LET c == procs[p] IN
  /\ c.pc = "write"
  /\ c.op = "decay"
  /\ \E i \in Pending(c) :
       /\ store' = update(store, i, decayDto(c.snap[i], c.at))
       /\ last' = [op |-> "decay", id |-> i, at |-> c.at, before |-> store,
                   arg |-> "none", found |-> TRUE, read |-> c.snap[i]]
       /\ procs' = IF Pending(c) = {i}
                   THEN [procs EXCEPT ![p].pc = "return", ![p].id = i]
                   ELSE [procs EXCEPT ![p].snap[i] = NoPet, ![p].id = i]
  /\ UNCHANGED <<clock, hist, ncalls, base, validation>>

Next ==
  \/ \E t \in Times : Tick(t)
  \/ \E p \in Procs, op \in Ops \ {"decay"}, id \in PetIds :
       Counted(MaxCalls) /\ Read(p, op, id)
  \/ \E p \in Procs : Resume(p)
  \/ \E p \in Procs : Commit(p)
  \/ \E p \in Procs : Counted(MaxCalls) /\ ReadAll(p)
  \/ \E p \in Procs : ResumeDecay(p)
  \/ \E p \in Procs : DecayStep(p)
  \/ \E p \in Procs : Return(p)

Spec == Init /\ [][Next]_vars

NextEngine ==
  \/ \E p \in Procs, op \in Ops \ {"decay"}, id \in PetIds :
       Counted(MaxApply) /\ Read(p, op, id)
  \/ \E p \in Procs : Resume(p)
  \/ \E p \in Procs : Commit(p)
  \/ \E p \in Procs : Counted(MaxApply) /\ ReadAll(p)
  \/ \E p \in Procs : ResumeDecay(p)
  \/ \E p \in Procs : DecayStep(p)
  \/ \E p \in Procs : Return(p)

SpecEngine == InitEngine /\ [][NextEngine]_vars

(***************************************************************************)
(* SpecPair: two handlers run concurrently over a collection of two pets.  *)
(***************************************************************************)
InitPair ==
  /\ clock = 0
  /\ store = [i \in PetIds |-> IF i = 1 THEN NewPet(0)
                               ELSE Repeat("play", NewPet(0), 0, PriorPlays)]
  /\ last = [op |-> "create", id |-> 2, at |-> 0, before |-> EmptyStore,
             arg |-> "none", found |-> TRUE, read |-> NoPet]
  /\ procs = [p \in Procs |-> IdleProc]
  /\ hist = << >>
  /\ ncalls = 0
  /\ base = store
  /\ validation = NoBodies

NextPair ==
  \/ \E t \in Times : Tick(t)
  \/ \E p \in Procs, op \in Ops \ {"decay"}, id \in PetIds :
       Counted(MaxPairCalls) /\ Read(p, op, id)
  \/ \E p \in Procs : Resume(p)
  \/ \E p \in Procs : Commit(p)
  \/ \E p \in Procs : Counted(MaxPairCalls) /\ ReadAll(p)
  \/ \E p \in Procs : ResumeDecay(p)
  \/ \E p \in Procs : DecayStep(p)
  \/ \E p \in Procs : Return(p)

SpecPair == InitPair /\ [][NextPair]_vars

(***************************************************************************)
(* SpecCrud: the requests POST /pets and PATCH /pets/:id next to the       *)
(* handlers, from an empty collection.  The global ValidationPipe checks   *)
(* the body against the DTO before the service is called.  A creation      *)
(* builds the document, which fixes its id and its timestamps, and the     *)
(* database executes the insert of save() in a later step; a PATCH is one  *)
(* database operation.  PetsService.create hands the whole body it is      *)
(* given to the model, so a field of the Pet schema that a body carries    *)
(* next to the fields of CreatePetDto is stored when the pipe lets it      *)
(* through; whether it does is set by the options in validation, which     *)
(* may have any value here.                                                *)
(***************************************************************************)
\* the instants at which the clock is read in SpecCrud
CrudTimes == {0, 60}

\* the type values a creation request may carry: those of the enum, one
\* the README lists and the enum does not have, one that neither has
RequestedTypes == PetType \cup {"dog", "lizard"}

\* the bodies of creation requests: a type alone, or a type with fields of
\* the Pet schema that CreatePetDto does not declare
CreateBodies ==
  { [type |-> t] : t \in RequestedTypes }
    \cup { [type |-> "fish", health |-> 20, level |-> 7, status |-> "sick"] }

\* bodies of PATCH /pets/:id that pass the validation of UpdatePetDto
PatchBodies == { [type |-> "cat"], [level |-> 5], [experience |-> 250] }

InitCrud ==
  /\ clock = 0
  /\ store = EmptyStore
  /\ last = [op |-> "none", id |-> 1, at |-> 0, before |-> EmptyStore,
             arg |-> "none", found |-> TRUE, read |-> NoPet]
  /\ procs = [p \in Procs |-> IdleProc]
  /\ hist = << >>
  /\ ncalls = 0
  /\ base = store
  /\ validation \in ValidationConfigs

\* the fields of the Pet schema that CreatePetDto declares, of those kept
\* in the records here
DeclaredFields == {"type"}

\* the global ValidationPipe on a creation body: @IsEnum(PetType) type,
\* and with whitelist and forbidNonWhitelisted a body with a field the DTO
\* does not declare is rejected
validCreate(body) ==
  /\ body.type \in PetType
  /\ (validation.whitelist /\ validation.forbidNonWhitelisted)
       => DOMAIN body \subseteq DeclaredFields

\* the body the pipe hands to the controller: with whitelist the fields
\* the DTO does not declare are removed
piped(body) ==
  IF validation.whitelist
  THEN [f \in DOMAIN body \cap DeclaredFields |-> body[f]]
  ELSE body

\* the id of a new document: one that no stored document and no document
\* being created has, here the least of them
FreshId(id) ==
  LET taken == {i \in PetIds : \/ store[i] # NoPet
                               \/ \E q \in Procs : procs[q].pc = "insert"
                                                   /\ procs[q].id = i}
  IN /\ id \notin taken
     /\ \A i \in PetIds \ taken : id <= i

\* PetsController.create -> PetsService.create: a body the pipe rejects
\* stores nothing; for an accepted one const pet = new this.petModel(dto)
\* builds the document, the fields of the body over the schema defaults,
\* the three timestamps read from the clock, and pet.save() is called
createPet(p, id, body) ==
  /\ ncalls < MaxCrudCalls
  /\ ncalls' = ncalls + 1
  /\ FirstIdle(p)
  /\ FreshId(id)
  /\ IF validCreate(body)
     THEN /\ procs' = [procs EXCEPT ![p] =
                        [pc |-> "insert", op |-> "create", id |-> id, at |-> clock,
                         snap |-> Only(id, Merge(NewPet(clock), piped(body))),
                         arg |-> body]]
          /\ UNCHANGED last
     ELSE /\ last' = [op |-> "create", id |-> id, at |-> clock, before |-> store,
                      arg |-> body, found |-> FALSE, read |-> NoPet]
          /\ UNCHANGED procs
  /\ UNCHANGED <<store, clock, hist, base, validation>>

\* the database executes the insert of pet.save(); its answer is on the way
\* to create
InsertPet(p) ==
  LET c == procs[p] IN
  /\ c.pc = "insert"
  /\ store' = [store EXCEPT ![c.id] = c.snap[c.id]]
  /\ last' = [op |-> "create", id |-> c.id, at |-> c.at, before |-> store,
              arg |-> c.arg, found |-> TRUE, read |-> NoPet]
  /\ procs' = [procs EXCEPT ![p].pc = "return"]
  /\ UNCHANGED <<clock, hist, ncalls, base, validation>>

\* PetsController.update -> PetsService.update
patchPet(id, dto) ==
  /\ ncalls < MaxCrudCalls
  /\ ncalls' = ncalls + 1
  /\ store' = update(store, id, dto)
  /\ last' = [op |-> "update", id |-> id, at |-> clock, before |-> store,
              arg |-> dto, found |-> store[id] # NoPet, read |-> NoPet]
  /\ UNCHANGED <<clock, procs, hist, base, validation>>

NextCrud ==
  \/ \E t \in CrudTimes : Tick(t)
  \/ \E p \in Procs, id \in PetIds, body \in CreateBodies : createPet(p, id, body)
  \/ \E p \in Procs : InsertPet(p)
  \/ \E id \in PetIds, dto \in PatchBodies : patchPet(id, dto)
  \/ \E p \in Procs, op \in Ops \ {"decay"}, id \in PetIds :
       Counted(MaxCrudCalls) /\ Read(p, op, id)
  \/ \E p \in Procs : Resume(p)
  \/ \E p \in Procs : Commit(p)
  \/ \E p \in Procs : Counted(MaxCrudCalls) /\ ReadAll(p)
  \/ \E p \in Procs : ResumeDecay(p)
  \/ \E p \in Procs : DecayStep(p)
  \/ \E p \in Procs : Return(p)

SpecCrud == InitCrud /\ [][NextCrud]_vars

(***************************************************************************)
(* SpecDelete: the handlers of Spec next to PetsService.delete, which is   *)
(* one database operation.                                                 *)
(***************************************************************************)
\* return this.petModel.findByIdAndDelete(id).exec()
deletePet(id) ==
  /\ ncalls < MaxDeleteCalls
  /\ ncalls' = ncalls + 1
  /\ store' = [store EXCEPT ![id] = NoPet]
  /\ last' = [op |-> "delete", id |-> id, at |-> clock, before |-> store,
              arg |-> "none", found |-> store[id] # NoPet, read |-> NoPet]
  /\ UNCHANGED <<clock, procs, hist, base, validation>>

NextDelete ==
  \/ \E t \in Times : Tick(t)
  \/ \E p \in Procs, op \in Ops \ {"decay"}, id \in PetIds :
       Counted(MaxDeleteCalls) /\ Read(p, op, id)
  \/ \E p \in Procs : Resume(p)
  \/ \E p \in Procs : Commit(p)
  \/ \E p \in Procs : Counted(MaxDeleteCalls) /\ ReadAll(p)
  \/ \E p \in Procs : ResumeDecay(p)
  \/ \E p \in Procs : DecayStep(p)
  \/ \E p \in Procs : Return(p)
  \/ \E id \in PetIds : deletePet(id)

SpecDelete == Init /\ [][NextDelete]_vars

(***************************************************************************)
(* SpecNeglect: a pet nobody acts on any more.  Hours pass and the         *)
(* scheduler keeps starting the decay batch, also while an earlier batch   *)
(* is still running.  The clock is counted up to                           *)
(* NeglectHorizon, at least two hours after every timestamp of the pet;    *)
(* a later clock only makes each loss larger.                              *)
(***************************************************************************)
NeglectHealth    == {20, 100}
NeglectEnergy    == {3, 8}
NeglectHunger    == {8}
NeglectHappiness == {3}
NeglectStart     == {0}

InitNeglect ==
  /\ clock \in NeglectStart
  /\ \E he \in NeglectHealth, en \in NeglectEnergy, hu \in NeglectHunger,
        ha \in NeglectHappiness, lf \in {0}, lp \in {0}, ls \in {0, clock} :
        store = [i \in PetIds |->
                  IF i = 1
                  THEN [ type       |-> "fish",
                         level      |-> levelOf(DefaultExperience),
                         experience |-> DefaultExperience,
                         health     |-> he,
                         hunger     |-> hu,
                         happiness  |-> ha,
                         energy     |-> en,
                         status     |-> calculatePetStatus(hu, he, en, ha),
                         lastFed    |-> lf,
                         lastPlayed |-> lp,
                         lastSlept  |-> ls ]
                  ELSE NoPet]
  /\ last = [op |-> "none", id |-> 1, at |-> 0, before |-> EmptyStore,
             arg |-> "none", found |-> TRUE, read |-> NoPet]
  /\ procs = [p \in Procs |-> IdleProc]
  /\ hist = << >>
  /\ ncalls = 0
  /\ base = store
  /\ validation = NoBodies

\* an hour passes
hourPasses ==
  /\ clock < NeglectHorizon
  /\ clock' = Min(clock + MinutesPerHour, NeglectHorizon)
  /\ UNCHANGED <<store, last, procs, hist, ncalls, base, validation>>

\* the scheduler starts updatePetStatsOverTime once more
startBatch(p) == ReadAll(p) /\ UNCHANGED ncalls

\* the answer of find() reaches a batch
resumeBatch(p) == ResumeLoop(p) /\ UNCHANGED hist

\* the step of the loop of a batch
batchStep(p) == DecayStep(p)

\* a batch returns; no history is kept here
batchReturns(p) == Deliver(p) /\ UNCHANGED hist

NextNeglect ==
  \/ hourPasses
  \/ \E p \in Procs : startBatch(p)
  \/ \E p \in Procs : resumeBatch(p)
  \/ \E p \in Procs : batchStep(p)
  \/ \E p \in Procs : batchReturns(p)

SpecNeglect ==
  /\ InitNeglect
  /\ [][NextNeglect]_vars
  /\ WF_vars(hourPasses)
  /\ WF_vars(\E p \in Procs : startBatch(p))
  /\ \A p \in Procs : WF_vars(resumeBatch(p))
  /\ \A p \in Procs : WF_vars(batchStep(p))
  /\ \A p \in Procs : WF_vars(batchReturns(p))

(***************************************************************************)
(* Properties.                                                             *)
(***************************************************************************)
Vitals == {"health", "hunger", "happiness", "energy"}

\* the four vitals of a document lie in 0..100
InRange(pet) == \A v \in Vitals : pet[v] >= 0 /\ pet[v] <= 100

\* the document the last write has written
Touched == {i \in PetIds : /\ store[i] # NoPet
                           /\ last.before[i] # NoPet
                           /\ last.found
                           /\ last.op \in Ops
                           /\ last.id = i}

\* C1: in every state reached from a created pet by feed, play, sleep, heal
\* and decay with a clock that never goes back, the four vitals of every
\* stored pet lie in 0..100.
ClampingInvariant ==
  \A i \in PetIds : store[i] # NoPet => InRange(store[i])

\* C1 witness: a decay 102 hours after the last feed has brought a positive
\* hunger down to 0 and no further.
ClampingWitness ==
  /\ last.op = "decay"
  /\ last.before[1].hunger > 0
  /\ last.at - store[1].lastFed >= 6000
  /\ store[1].hunger = 0
  /\ store[1].energy = 0

\* C2: immediately after each of feed, play, sleep, heal and decay the
\* stored status is the classifier's value for the stored hunger, health,
\* energy and happiness, never a stale one; for sleep, which the section on
\* the sleep action exempts from the classifier, it is the value of sleep's
\* own rule for the stored energy.
StatusNeverStale ==
  \A i \in Touched :
    IF last.op = "sleep"
    THEN store[i].status = (IF store[i].energy > 80 THEN "active" ELSE "sleeping")
    ELSE store[i].status = calculatePetStatus(store[i].hunger, store[i].health,
                                              store[i].energy, store[i].happiness)

\* C3: level = floor(experience / 100) + 1 for every stored pet.
LevelConsistency ==
  \A i \in PetIds :
    store[i] # NoPet => store[i].level = (store[i].experience \div 100) + 1

\* C3 witness: a feed or a play has raised the level from 1 to 2.
LevelWitness ==
  /\ 1 \in Touched
  /\ last.op \in {"feed", "play"}
  /\ last.before[1].level = 1
  /\ store[1].level = 2
  /\ store[1].experience >= 100

\* the record of pet 1 that was stored when the last write was executed
Input == last.before[1]

\* the last write is that of a call of the five operations on pet 1, and
\* the document the call had read was still the one stored when the
\* database executed the write: the write is the call's transition of the
\* stored record
EngineActed ==
  /\ last.op \in Ops
  /\ last.id = 1
  /\ last.found
  /\ Input # NoPet
  /\ store[1] # NoPet
  /\ last.read = Input

\* C4: for vitals in 0..100 the classifier returns the first match of the
\* ordered rules health < 30 -> sick, energy < 20 -> sleeping, hunger < 30
\* -> hungry, happiness > 80 and health > 80 and energy > 60 -> happy,
\* otherwise active.
ClassifierFirstMatch ==
  \A i \in PetIds :
    (store[i] # NoPet /\ InRange(store[i])) =>
      LET p == store[i]
          s == calculatePetStatus(p.hunger, p.health, p.energy, p.happiness)
      IN /\ p.health < 30 => s = "sick"
         /\ (p.health >= 30 /\ p.energy < 20) => s = "sleeping"
         /\ (p.health >= 30 /\ p.energy >= 20 /\ p.hunger < 30) => s = "hungry"
         /\ (p.health > 80 /\ p.energy > 60 /\ p.hunger >= 30 /\ p.happiness > 80)
              => s = "happy"
         /\ (p.health >= 30 /\ p.energy >= 20 /\ p.hunger >= 30
               /\ ~(p.happiness > 80 /\ p.health > 80 /\ p.energy > 60))
              => s = "active"

\* C4 witness: a decay has classified the pet with health 29, energy 19,
\* hunger 29 and happiness 81 as sick.
ClassifierWitness ==
  /\ EngineActed
  /\ last.op = "decay"
  /\ store[1].health = 29 /\ store[1].energy = 19
  /\ store[1].hunger = 29 /\ store[1].happiness = 81
  /\ store[1].status = "sick"

\* C5: sleep sets energy = min(100, energy + 40), health = min(100, health
\* + 10) and the status active when the new energy exceeds 80, sleeping
\* otherwise, whatever hunger, happiness and health are.
SleepEffect ==
  (EngineActed /\ last.op = "sleep" /\ InRange(Input)) =>
    /\ store[1].energy = (IF Input.energy + 40 > 100 THEN 100 ELSE Input.energy + 40)
    /\ store[1].health = (IF Input.health + 10 > 100 THEN 100 ELSE Input.health + 10)
    /\ store[1].status = (IF store[1].energy > 80 THEN "active" ELSE "sleeping")
    /\ store[1].status \in {"active", "sleeping"}

\* C5 witness: sleep from energy 60 and health 30 of a pet with hunger 29
\* gives energy 100, health 40 and the status active.
SleepWitness ==
  /\ EngineActed
  /\ last.op = "sleep"
  /\ Input.energy = 60 /\ Input.health = 30 /\ Input.hunger = 29
  /\ store[1].energy = 100 /\ store[1].health = 40
  /\ store[1].status = "active"

\* the collection after the call c of hist has run alone on collection st
applyCall(st, c) ==
  IF c.op = "decay"
  THEN [i \in PetIds |-> IF st[i] = NoPet THEN NoPet
                         ELSE transition("decay", st[i], c.at)]
  ELSE IF st[c.id] = NoPet THEN st
  ELSE [st EXCEPT ![c.id] = transition(c.op, st[c.id], c.at)]

Quiescent == \A p \in Procs : procs[p].pc = "idle"

\* C6 as stated: when two calls have returned, whatever the interleaving of
\* their reads and writes, the collection is what the two transitions give
\* when applied one after the other in one of the two orders.
Serializable ==
  (Quiescent /\ Len(hist) = 2) =>
    \/ store = applyCall(applyCall(base, hist[1]), hist[2])
    \/ store = applyCall(applyCall(base, hist[2]), hist[1])

\* the calls that have returned are decay batches, each read the clock at
\* a later time than the one that returned before it, and the last of them
\* made the last write
OnlyDecays ==
  /\ Quiescent
  /\ Len(hist) >= 1
  /\ ncalls = Len(hist)
  /\ \A j \in 1..Len(hist) : hist[j].op = "decay"
  /\ \A j, k \in 1..Len(hist) : j < k => hist[j].at < hist[k].at
  /\ last.op = "decay"
  /\ last.at = hist[Len(hist)].at

\* C7 as stated: after decay batches at advancing times with no action in
\* between, each vital has lost what the time elapsed up to the last batch
\* accounts for once: 2 per hour since lastFed for hunger, 1.5 per hour
\* since lastPlayed for happiness, 1 per hour since lastSlept for energy,
\* counted from the value before the first batch.
DecayByElapsedOnly ==
  \A i \in PetIds :
    (OnlyDecays /\ base[i] # NoPet /\ store[i] # NoPet) =>
      LET p0 == base[i]
          p  == store[i]
      IN /\ p.hunger = Max(0, p0.hunger - ((2 * (last.at - p.lastFed)) \div 60))
         /\ p.happiness = Max(0, p0.happiness - ((3 * (last.at - p.lastPlayed)) \div 120))
         /\ p.energy = Max(0, p0.energy - ((last.at - p.lastSlept) \div 60))

\* C8 as stated: a transition applied again with the same now to its own
\* result gives that result.
Idempotent ==
  (EngineActed /\ InRange(Input)) =>
    transition(last.op, store[1], last.at) = store[1]

\* C8 amended: applied again with the same now to its own result, feed and
\* play always change the record (experience rises again); heal leaves it
\* unchanged exactly when health + 30 >= 100; sleep exactly when energy + 40
\* >= 100 and health + 10 >= 100; decay exactly when, for each of hunger,
\* happiness and energy, the loss is 0 or the vital is already 0.
IdempotentWhenSaturated ==
  (EngineActed /\ InRange(Input)) =>
    LET same == transition(last.op, store[1], last.at) = store[1]
        p    == store[1]
        gone(v, loss) == loss = 0 \/ p[v] = 0
    IN CASE last.op = "feed"  -> ~same
         [] last.op = "play"  -> ~same
         [] last.op = "heal"  -> (same <=> Input.health + 30 >= 100)
         [] last.op = "sleep" -> (same <=> (Input.energy + 40 >= 100
                                            /\ Input.health + 10 >= 100))
         [] last.op = "decay" ->
              (same <=> /\ gone("hunger", (2 * (last.at - p.lastFed)) \div 60)
                        /\ gone("happiness", (3 * (last.at - p.lastPlayed)) \div 120)
                        /\ gone("energy", (last.at - p.lastSlept) \div 60))

\* C8 witness: heal of a pet with health 80 gives health 100, and heal of
\* that result at the same now gives the same record.
IdempotentWitness ==
  /\ EngineActed
  /\ last.op = "heal"
  /\ Input.health = 80
  /\ store[1].health = 100
  /\ transition("heal", store[1], last.at) = store[1]

\* C9 as stated: for every record with vitals in 0..100 and every now, also
\* one before lastFed, lastPlayed or lastSlept, each transition gives a
\* record with vitals in 0..100.
TotalAndClamped ==
  (EngineActed /\ InRange(Input)) => InRange(store[1])

\* C10 as stated: no step of any interleaving of the handlers lowers the
\* stored experience or the stored level of a pet.
ExperienceMonotone ==
  [][\A i \in PetIds :
       (store[i] # NoPet /\ store'[i] # NoPet) =>
         /\ store'[i].experience >= store[i].experience
         /\ store'[i].level >= store[i].level]_vars

\* min(100, v + d) and max(0, v - d) written out
Capped(v, d)  == IF v + d > 100 THEN 100 ELSE v + d
Floored(v, d) == IF v - d < 0 THEN 0 ELSE v - d

\* C11: feed sets hunger = min(100, hunger + 30), happiness = min(100,
\* happiness + 10), experience = experience + 10, level = floor(new
\* experience / 100) + 1, lastFed = now and the status the classifier gives
\* for the new hunger and happiness and the old health and energy; health
\* and energy are unchanged.
FeedEffect ==
  (EngineActed /\ last.op = "feed" /\ InRange(Input)) =>
    LET p == store[1] IN
    /\ p.hunger = Capped(Input.hunger, 30)
    /\ p.happiness = Capped(Input.happiness, 10)
    /\ p.experience = Input.experience + 10
    /\ p.level = (p.experience \div 100) + 1
    /\ p.lastFed = last.at
    /\ p.health = Input.health
    /\ p.energy = Input.energy
    /\ p.status = calculatePetStatus(Capped(Input.hunger, 30), Input.health,
                                     Input.energy, Capped(Input.happiness, 10))

\* C11 witness: feed of a pet with hunger 30, happiness 80 and experience 95
\* has given hunger 60, happiness 90, experience 105 and level 2.
FeedWitness ==
  /\ EngineActed
  /\ last.op = "feed"
  /\ Input.hunger = 30 /\ Input.happiness = 80 /\ Input.experience = 95
  /\ Input.level = 1
  /\ store[1].hunger = 60 /\ store[1].happiness = 90
  /\ store[1].experience = 105 /\ store[1].level = 2

HealEffect ==
  (EngineActed /\ last.op = "heal" /\ InRange(Input)) =>
    LET p == store[1] IN
    /\ p.health = Capped(Input.health, 30)
    /\ p.hunger = Input.hunger
    /\ p.energy = Input.energy
    /\ p.happiness = Input.happiness
    /\ p.status = calculatePetStatus(Input.hunger, Capped(Input.health, 30),
                                     Input.energy, Input.happiness)

\* C13 witness: heal has brought a sick pet with health 29 to health 59 and
\* the status hungry.
HealWitness ==
  /\ EngineActed
  /\ last.op = "heal"
  /\ Input.health = 29 /\ Input.status = "sick"
  /\ Input.hunger = 29 /\ Input.energy = 60
  /\ store[1].health = 59
  /\ store[1].status = "hungry"

HappyStrict ==
  (EngineActed /\ last.op \in {"feed", "play", "heal", "decay"} /\ InRange(store[1])
     /\ store[1].health >= 30 /\ store[1].energy >= 20 /\ store[1].hunger >= 30) =>
    LET p == store[1] IN
    /\ p.status = "happy" <=> (p.happiness > 80 /\ p.health > 80 /\ p.energy > 60)
    /\ p.status \in {"happy", "active"}
    /\ (p.happiness = 80 \/ p.health = 80 \/ p.energy = 60) => p.status = "active"

\* C15 witness: a pet with happiness 100 and health 81 is stored active
\* with energy 60.
HappyWitness ==
  /\ EngineActed
  /\ last.op = "decay"
  /\ store[1].happiness = 100 /\ store[1].health = 81 /\ store[1].energy = 60
  /\ store[1].hunger >= 30
  /\ store[1].status = "active"

\* the timestamp field each action writes
StampOf(op) ==
  CASE op = "feed"  -> {"lastFed"}
    [] op = "play"  -> {"lastPlayed"}
    [] op = "sleep" -> {"lastSlept"}
    [] OTHER        -> {}

Stamps == {"lastFed", "lastPlayed", "lastSlept"}

\* C19: feed sets lastFed to now, play lastPlayed, sleep lastSlept, and each
\* transition leaves the other timestamps as they were; heal and decay
\* change none of the three.
StampsOwnAction ==
  (EngineActed /\ InRange(Input)) =>
    \A f \in Stamps :
      IF f \in StampOf(last.op) THEN store[1][f] = last.at
      ELSE store[1][f] = Input[f]

\* C19 witness: a feed at minute 60 has moved lastFed from 0 to 60 and left
\* lastPlayed at 60 and lastSlept at 0.
StampsWitness ==
  /\ EngineActed
  /\ last.op = "feed"
  /\ last.at = 60
  /\ Input.lastFed = 0 /\ Input.lastPlayed = 60 /\ Input.lastSlept = 0
  /\ store[1].lastFed = 60 /\ store[1].lastPlayed = 60 /\ store[1].lastSlept = 0

\* C20: sleep, heal and decay leave experience and level as they were; feed
\* and play are the transitions that change the experience.
ExperienceOnlyByFeedAndPlay ==
  (EngineActed /\ InRange(Input)) =>
    IF last.op \in {"sleep", "heal", "decay"}
    THEN /\ store[1].experience = Input.experience
         /\ store[1].level = Input.level
    ELSE store[1].experience > Input.experience

\* C20 witness: a sleep has raised the energy of a pet with experience 95
\* and level 1 and left both as they were.
ExperienceWitness ==
  /\ EngineActed
  /\ last.op = "sleep"
  /\ Input.experience = 95 /\ Input.level = 1
  /\ store[1].energy > Input.energy
  /\ store[1].experience = 95 /\ store[1].level = 1

\* C16: feedPet, playWithPet, sleepPet and healPet called with an id that is
\* not in the collection report not-found and leave the collection as it
\* was: no document is created or changed.
NotFoundLeavesStore ==
  (last.op \in {"feed", "play", "sleep", "heal"} /\ last.before[last.id] = NoPet) =>
    /\ ~last.found
    /\ store = last.before
    /\ store[last.id] = NoPet

\* C16 witness: healPet(2) has reported not-found while pet 1, already
\* changed by an earlier call, is stored as before.
NotFoundWitness ==
  /\ last.op = "heal"
  /\ last.id = 2
  /\ ~last.found
  /\ store[2] = NoPet
  /\ store[1] # base[1]
  /\ store[1] = last.before[1]

\* the calls that have returned and have written pet i
CallsOn(i) == SelectSeq(hist, LAMBDA c : c.id = i \/ c.op = "decay")

\* C17: whatever the interleaving with the calls on the other pet, and
\* whatever the order in which a batch visits the pets, a pet that no call
\* has written is stored as it was and a pet that one call has written is
\* stored as that call's transition alone leaves it.
IndependentPets ==
  Quiescent =>
    \A i \in PetIds :
      /\ Len(CallsOn(i)) = 0 => store[i] = base[i]
      /\ Len(CallsOn(i)) = 1 =>
           store[i] = transition(CallsOn(i)[1].op, base[i], CallsOn(i)[1].at)

\* C17 witness: a play on pet 1 and a feed on pet 2 have both returned,
\* the feed having read the clock first and returned last.
IndependentWitness ==
  /\ Quiescent
  /\ Len(hist) = 2
  /\ hist[1].op = "play" /\ hist[1].id = 1
  /\ hist[2].op = "feed" /\ hist[2].id = 2
  /\ hist[1].at > hist[2].at
  /\ store[1] # base[1]
  /\ store[2] # base[2]

\* the last request was a creation that stored a document
Created == last.op = "create" /\ last.found /\ store[last.id] # NoPet

\* the body of the last creation supplies the owner and the type, that is
\* the fields CreatePetDto declares, and no other field of the Pet schema
PlainBody == DOMAIN last.arg \subseteq DeclaredFields

\* C21: a newly created pet, owner and type supplied, has health, hunger,
\* happiness and energy 100, experience 0 and level 1 when it is stored,
\* whatever the options of the pipe and whatever ran between the call and
\* the insert.
CreatedWithDefaults ==
  (Created /\ PlainBody) =>
    /\ \A v \in Vitals : store[last.id][v] = 100
    /\ store[last.id].experience = 0
    /\ store[last.id].level = 1

\* C21 witness: a cat built at minute 0 has been inserted one hour later,
\* with the timestamps of minute 0 and energy 100.
CreatedWitness ==
  /\ Created
  /\ PlainBody
  /\ last.arg.type = "cat"
  /\ store[last.id].type = "cat"
  /\ last.at = 0
  /\ clock = 60
  /\ store[last.id].lastFed = 0
  /\ store[last.id].energy = 100

\* C22: the pet types are exactly cat, dog, bird, fish and rabbit: a creation
\* that supplies owner and type is accepted exactly when its type is one of
\* the five, and getPetTypes returns the five.
FivePetTypes ==
  (last.op = "create" /\ PlainBody) =>
    /\ last.found <=> last.arg.type \in DocumentedTypes
    /\ getPetTypes = DocumentedTypes

\* C23: the type of a stored pet is never changed by a request (and no
\* document moves to another id).
TypeImmutable ==
  \A i \in PetIds :
    (store[i] # NoPet /\ last.before[i] # NoPet) => store[i].type = last.before[i].type

\* C25: the status stored for a newly created pet is the classifier's value
\* for its initial vitals.
CreatedStatusClassified ==
  Created =>
    store[last.id].status =
      calculatePetStatus(store[last.id].hunger, store[last.id].health,
                         store[last.id].energy, store[last.id].happiness)

\* C28: after a feed, play, sleep, heal or decay, also one that follows a
\* PATCH with a valid body, level = floor(experience / 100) + 1 for every
\* stored pet.
LevelConsistentAfterPatch ==
  (last.op \in Ops /\ last.found) =>
    \A i \in PetIds :
      store[i] # NoPet => store[i].level = (store[i].experience \div 100) + 1

\* C24: no transition lowers health (feed, play and decay leave it as it
\* was, sleep and heal do not lower it), so every pet reached from a newly
\* created one by the five transitions has health 100 and is never sick.
HealthNeverLowered ==
  \A i \in PetIds :
    store[i] # NoPet =>
      /\ store[i].health = 100
      /\ store[i].status # "sick"
      /\ i \in Touched =>
           /\ last.op \in {"feed", "play", "decay"} =>
                store[i].health = last.before[i].health
           /\ last.op \in {"sleep", "heal"} =>
                store[i].health >= last.before[i].health

\* C24 witness: a decay 102 hours after creation has emptied hunger and
\* energy of a pet that already had a feed or a play, and left health at 100.
HealthWitness ==
  /\ 1 \in Touched
  /\ last.op = "decay"
  /\ last.at = 6120
  /\ last.before[1].energy > 0
  /\ last.before[1].experience > 0
  /\ store[1].energy = 0
  /\ store[1].hunger = 0
  /\ store[1].health = 100
  /\ store[1].status = "sleeping"

\* the vitals a handler writes
Writes(op) == DOMAIN dtoOf(op, NewPet(0), 0) \cap Vitals

\* the calls that have returned write pairwise disjoint vitals and none is
\* a sleep
DisjointWriters ==
  /\ Len(hist) >= 2
  /\ \A j \in 1..Len(hist) : hist[j].op # "sleep"
  /\ \A j, k \in 1..Len(hist) :
       j # k => Writes(hist[j].op) \cap Writes(hist[k].op) = {}

\* C26: once calls on the same pet that write disjoint vitals, none of them
\* a sleep, have all returned, in whatever interleaving, the stored status
\* is the classifier's value for the stored vitals.
StatusAfterDisjointWriters ==
  (Quiescent /\ DisjointWriters) =>
    \A i \in PetIds :
      store[i] # NoPet =>
        store[i].status = calculatePetStatus(store[i].hunger, store[i].health,
                                             store[i].energy, store[i].happiness)

\* what the handler of the last write or rejected call gives its caller: NotFoundException when
\* findById found nothing, else the value of update, which is null when the
\* document was gone at the write
Returned ==
  IF ~last.found THEN "NotFoundException"
  ELSE IF last.before[last.id] = NoPet THEN "null"
  ELSE "pet"

\* C27: a pet deleted between the read and the write of an action, or during
\* a decay batch after findAll, is not created again, and every feedPet,
\* playWithPet, sleepPet and healPet call returns the updated pet or raises
\* NotFoundException, never null.
DeletedStaysDeleted ==
  /\ (last.op \in Ops /\ last.id \in PetIds /\ last.before[last.id] = NoPet) =>
       store[last.id] = NoPet
  /\ last.op \in Ops \ {"decay"} => Returned \in {"pet", "NotFoundException"}

\* hunger, happiness and energy of every stored pet are 0 and a pet with
\* health >= 30 is stored as sleeping
Exhausted ==
  \A i \in PetIds :
    store[i] # NoPet =>
      /\ store[i].hunger = 0
      /\ store[i].happiness = 0
      /\ store[i].energy = 0
      /\ store[i].health >= 30 => store[i].status = "sleeping"

\* C29: when no action is performed any more while time keeps advancing and
\* the decay keeps being run, hunger, happiness and energy eventually are 0
\* and stay 0, and a pet with health >= 30 eventually is sleeping for good.
NeglectExhausts == <>[]Exhausted

\* C29 witness: a decay at the horizon has taken the last energy of a pet
\* with health 100, whose hunger and happiness were 0 already.
NeglectWitness ==
  /\ Exhausted
  /\ last.op = "decay"
  /\ clock = NeglectHorizon
  /\ last.before[1] # NoPet
  /\ last.before[1].energy > 0
  /\ last.before[1].hunger = 0
  /\ store[1].health = 100
  /\ store[1].status = "sleeping"

====
